---- MODULE Spec2Model ----
(***************************************************************************)
(* Escrow service: the Escrow row and its state machine (escrow/models.py),*)
(* the fund / release / refund endpoints (escrow/views.py), the object     *)
(* permissions (escrow/permissions.py) and the expiration task             *)
(* (escrow/tasks.py).                                                      *)
(*                                                                         *)
(* The database is the committed content of the escrow table (db, indexed  *)
(* by primary key) and one row lock per row (lock), as taken by            *)
(* select_for_update.  An endpoint runs in three steps: the permission     *)
(* check of the request and the read of `now`, the non-blocking            *)
(* SELECT ... FOR UPDATE NOWAIT, and the body of the atomic block up to    *)
(* its commit.  The task runs one step per query and two per candidate.    *)
(* One unit of the clock is ESCROW_DEFAULT_EXPIRATION_SECONDS seconds.     *)
(***************************************************************************)
EXTENDS Integers, Sequences, FiniteSets, TLC

\* ---------------------------------------------------------------- bounds
MaxEscrows == 1
MaxReqs == 2
MaxTime == 1
\* rows in the table when the expiration task runs on its own
SweepEscrows == 2
\* rows the creation endpoint stores, and the largest amount of a payload
CreateEscrows == 2
MaxAmount == 1

\* ------------------------------------------------------------- constants
\* settings.ESCROW_DEFAULT_EXPIRATION_SECONDS (default 24 * 3600), in clock units
ExpirationWindow == 1
\* batch_size of the expiration task
batch_size == 100

\* A null DateTimeField.
Null == 0 - 1

Free == 0
SweepHolder == 0 - 1

Reqs == 1 .. MaxReqs
Pks == 1 .. MaxEscrows
Times == 0 .. MaxTime

CREATED == "CREATED"
FUNDED == "FUNDED"
RELEASED == "RELEASED"
REFUNDED == "REFUNDED"
EXPIRED == "EXPIRED"

State == {CREATED, FUNDED, RELEASED, REFUNDED, EXPIRED}
Terminal == {RELEASED, REFUNDED, EXPIRED}

\* SimpleUser(id, role) of the header authentication
Buyer1 == [id |-> "buyer-1", role |-> "buyer"]
Buyer2 == [id |-> "buyer-2", role |-> "buyer"]
Seller1 == [id |-> "seller-1", role |-> "seller"]
Users == {Buyer1, Buyer2, Seller1}

Kinds == {"fund", "release", "refund"}

VARIABLES clock, db, lock, req, sweep, lastCount, direct

vars == <<clock, db, lock, req, sweep, lastCount, direct>>

\* -------------------------------------------------------------- the model
\* Escrow.objects.create(buyer_id, seller_id, ...): the field defaults
\* (created_at and updated_at are written but never read by a transition, the
\* permissions or the task; the model leaves them out)
NewEscrow(buyer, seller, amount) ==
    [buyer_id |-> buyer, seller_id |-> seller, amount |-> amount,
     state |-> CREATED,
     version |-> 0, expires_at |-> Null,
     funded_at |-> Null, released_at |-> Null, refunded_at |-> Null,
     expired_at |-> Null]

\* An instance variable that holds no row.
NoInst == NewEscrow("", "", 0)

\* Escrow._set_state (set_stateDouble: a variant that bumps the version twice)
set_stateDouble(inst, new_state) ==
    IF inst.state = new_state THEN inst
    ELSE [inst EXCEPT !.state = new_state, !.version = @ + 2]

set_state(inst, new_state) ==
    IF inst.state = new_state THEN inst
    ELSE [inst EXCEPT !.state = new_state, !.version = @ + 1]

\* self.save(update_fields=[state, version, funded_at, expires_at, updated_at]):
\* UPDATE ... WHERE id = pk, whatever the stored row holds
SaveFields(row, inst) ==
    [row EXCEPT !.state = inst.state, !.version = inst.version,
                !.funded_at = inst.funded_at, !.expires_at = inst.expires_at]

\* Escrow.objects.filter(pk=self.pk, state=FUNDED, version=self.version)
\* (MatchesNext: a variant that expects the version after the bump)
MatchesNext(row, inst) == row.state = FUNDED /\ row.version = inst.version + 1

Matches(row, inst) == row.state = FUNDED /\ row.version = inst.version

\* Escrow.fund: the outcome, the stored row and the instance afterwards
\* (FundUnchecked: a variant without the state check)
FundUnchecked(inst, row, now) ==
    LET i1 == [inst EXCEPT !.funded_at = now,
                           !.expires_at = now + ExpirationWindow]
        i2 == set_state(i1, FUNDED)
    IN [outcome |-> "ok", row |-> SaveFields(row, i2), inst |-> i2]

\* FundNoWindow: a variant whose escrow expires at the moment it is funded
FundNoWindow(inst, row, now) ==
    IF inst.state # CREATED
    THEN [outcome |-> "ValueError", row |-> row, inst |-> inst]
    ELSE LET i1 == [inst EXCEPT !.funded_at = now, !.expires_at = now]
             i2 == set_state(i1, FUNDED)
         IN [outcome |-> "ok", row |-> SaveFields(row, i2), inst |-> i2]

\* FundNoExpiry: a variant that leaves expires_at unset
FundNoExpiry(inst, row, now) ==
    IF inst.state # CREATED
    THEN [outcome |-> "ValueError", row |-> row, inst |-> inst]
    ELSE LET i1 == [inst EXCEPT !.funded_at = now]
             i2 == set_state(i1, FUNDED)
         IN [outcome |-> "ok", row |-> SaveFields(row, i2), inst |-> i2]

Fund(inst, row, now) ==
    IF inst.state # CREATED
    THEN [outcome |-> "ValueError", row |-> row, inst |-> inst]
    ELSE LET i1 == [inst EXCEPT !.funded_at = now,
                                !.expires_at = now + ExpirationWindow]
             i2 == set_state(i1, FUNDED)
         IN [outcome |-> "ok", row |-> SaveFields(row, i2), inst |-> i2]

\* Escrow.release (variants: ReleaseDoubleBump raises the version by 2,
\* ReleaseSilent returns normally when the UPDATE matches no row, ReleaseBoth
\* also writes refunded_at)
ReleaseDoubleBump(inst, row, now) ==
    IF inst.state # FUNDED
    THEN [outcome |-> "ValueError", row |-> row, inst |-> inst]
    ELSE IF ~(row.state = FUNDED /\ row.version = inst.version)
    THEN [outcome |-> "ValueError", row |-> row, inst |-> inst]
    ELSE LET r1 == [row EXCEPT !.state = RELEASED, !.released_at = now,
                               !.version = @ + 2]
         IN [outcome |-> "ok", row |-> r1, inst |-> r1]

ReleaseSilent(inst, row, now) ==
    IF inst.state # FUNDED
    THEN [outcome |-> "ValueError", row |-> row, inst |-> inst]
    ELSE IF ~(row.state = FUNDED /\ row.version = inst.version)
    THEN [outcome |-> "ok", row |-> row, inst |-> inst]
    ELSE LET r1 == [row EXCEPT !.state = RELEASED, !.released_at = now,
                               !.version = @ + 1]
         IN [outcome |-> "ok", row |-> r1, inst |-> r1]

ReleaseBoth(inst, row, now) ==
    IF inst.state # FUNDED
    THEN [outcome |-> "ValueError", row |-> row, inst |-> inst]
    ELSE IF ~(row.state = FUNDED /\ row.version = inst.version)
    THEN [outcome |-> "ValueError", row |-> row, inst |-> inst]
    ELSE LET r1 == [row EXCEPT !.state = RELEASED, !.released_at = now,
                               !.refunded_at = now,
                               !.version = @ + 1]
         IN [outcome |-> "ok", row |-> r1, inst |-> r1]

\* ReleaseBeforeDeadline: a variant that refuses a release once expires_at
\* has passed
ReleaseBeforeDeadline(inst, row, now) ==
    IF inst.state # FUNDED \/ inst.expires_at <= now
    THEN [outcome |-> "ValueError", row |-> row, inst |-> inst]
    ELSE IF ~Matches(row, inst)
    THEN [outcome |-> "ValueError", row |-> row, inst |-> inst]
    ELSE LET r1 == [row EXCEPT !.state = RELEASED, !.released_at = now,
                               !.version = @ + 1]
         IN [outcome |-> "ok", row |-> r1, inst |-> r1]

Release(inst, row, now) ==
    IF inst.state # FUNDED
    THEN [outcome |-> "ValueError", row |-> row, inst |-> inst]
    ELSE IF ~Matches(row, inst)
    THEN [outcome |-> "ValueError", row |-> row, inst |-> inst]
    ELSE LET r1 == [row EXCEPT !.state = RELEASED, !.released_at = now,
                               !.version = @ + 1]
         IN [outcome |-> "ok", row |-> r1, inst |-> r1]

\* Escrow.refund (RefundUnchecked: a variant without state check and filter)
RefundUnchecked(inst, row, now) ==
    LET r1 == [row EXCEPT !.state = REFUNDED, !.refunded_at = now,
                          !.version = @ + 1]
    IN [outcome |-> "ok", row |-> r1, inst |-> r1]

Refund(inst, row, now) ==
    IF inst.state # FUNDED
    THEN [outcome |-> "ValueError", row |-> row, inst |-> inst]
    ELSE IF ~Matches(row, inst)
    THEN [outcome |-> "ValueError", row |-> row, inst |-> inst]
    ELSE LET r1 == [row EXCEPT !.state = REFUNDED, !.refunded_at = now,
                               !.version = @ + 1]
         IN [outcome |-> "ok", row |-> r1, inst |-> r1]

\* Escrow.expire: returns None on every path (ExpireStrict: a variant that
\* raises on an instance that is not FUNDED)
ExpireStrict(inst, row, now) ==
    IF inst.state # FUNDED
    THEN [outcome |-> "ValueError", row |-> row, inst |-> inst]
    ELSE IF ~(row.state = FUNDED /\ row.version = inst.version)
    THEN [outcome |-> "ok", row |-> row, inst |-> inst]
    ELSE LET r1 == [row EXCEPT !.state = EXPIRED, !.expired_at = now,
                               !.version = @ + 1]
         IN [outcome |-> "ok", row |-> r1, inst |-> r1]

\* ExpireBumped: a variant whose UPDATE filters on the version after the bump
ExpireBumped(inst, row, now) ==
    IF inst.state # FUNDED
    THEN [outcome |-> "ok", row |-> row, inst |-> inst]
    ELSE IF ~MatchesNext(row, inst)
    THEN [outcome |-> "ok", row |-> row, inst |-> inst]
    ELSE LET r1 == [row EXCEPT !.state = EXPIRED, !.expired_at = now,
                               !.version = @ + 1]
         IN [outcome |-> "ok", row |-> r1, inst |-> r1]

Expire(inst, row, now) ==
    IF inst.state # FUNDED
    THEN [outcome |-> "ok", row |-> row, inst |-> inst]
    ELSE IF ~Matches(row, inst)
    THEN [outcome |-> "ok", row |-> row, inst |-> inst]
    ELSE LET r1 == [row EXCEPT !.state = EXPIRED, !.expired_at = now,
                               !.version = @ + 1]
         IN [outcome |-> "ok", row |-> r1, inst |-> r1]

\* The model operation an endpoint or a caller runs.
Transition(kind, inst, row, now) ==
    CASE kind = "fund" -> Fund(inst, row, now)
      [] kind = "release" -> Release(inst, row, now)
      [] kind = "refund" -> Refund(inst, row, now)
      [] kind = "expire" -> Expire(inst, row, now)

\* BuyerOnly.has_permission
BuyerOnly(user) == user.role = "buyer"

\* IsEscrowParticipant.has_object_permission for the POST of an endpoint
IsEscrowParticipant(user, obj) ==
    IF user.role = "buyer" THEN obj.buyer_id = user.id ELSE FALSE

Exists(pk) == pk \in 1 .. Len(db)

IdleReq == [pc |-> "idle", kind |-> "fund", pk |-> 0, user |-> Buyer1,
            now |-> Null, inst |-> NoInst, res |-> "none"]

IdleSweep == [pc |-> "idle", now |-> Null, candidates |-> <<>>,
              expired_count |-> 0, locked |-> NoInst]

IdleDirect == [pk |-> 0, kind |-> "none", inst |-> NoInst, res |-> "none"]

Init ==
    /\ clock = 0
    /\ db = <<>>
    /\ lock = [pk \in Pks |-> Free]
    /\ req = [r \in Reqs |-> IdleReq]
    /\ sweep = IdleSweep
    /\ lastCount = 0
    /\ direct = IdleDirect

\* timezone.now() advances.
Tick ==
    /\ clock < MaxTime
    /\ clock' = clock + 1
    /\ UNCHANGED <<db, lock, req, sweep, lastCount, direct>>

\* The payload of POST /api/escrows/: seller_id is any string, also the empty
\* one and the id of a buyer; amount is any decimal of up to 12 digits.
SellerIds == {"", Seller1.id, Buyer1.id, Buyer2.id}
Amounts == (0 - MaxAmount) .. MaxAmount

\* EscrowSerializer validation and create: seller_id is required and not
\* blank, the buyer is the authenticated user, the amount is stored as sent.
SerializerCreate(user, seller_id, amount) ==
    IF seller_id = ""
    THEN [outcome |-> "ValidationError", row |-> NoInst]
    ELSE [outcome |-> "ok", row |-> NewEscrow(user.id, seller_id, amount)]

\* POST /api/escrows/ : BuyerOnly, then the serializer; a rejected request
\* stores nothing.
PostEscrow(user, seller_id, amount) ==
    /\ BuyerOnly(user)
    /\ SerializerCreate(user, seller_id, amount).outcome = "ok"
    /\ db' = Append(db, SerializerCreate(user, seller_id, amount).row)
    /\ UNCHANGED <<clock, lock, req, sweep, lastCount, direct>>

\* The creation request of the tests: a seller and a positive amount.
Create(user) ==
    /\ Len(db) < MaxEscrows
    /\ PostEscrow(user, Seller1.id, MaxAmount)

\* The response of an endpoint.
Done(r, res) == [IdleReq EXCEPT !.pc = "done", !.kind = req[r].kind,
                                !.pk = req[r].pk, !.user = req[r].user,
                                !.res = res]

\* POST /api/escrows/{pk}/{kind}/ : the permission classes of the action, then
\* now = timezone.now()
Start(r, kind, pk, user) ==
    /\ req[r].pc = "idle"
    /\ IF BuyerOnly(user)
       THEN req' = [req EXCEPT ![r] = [IdleReq EXCEPT !.pc = "started",
                        !.kind = kind, !.pk = pk, !.user = user, !.now = clock]]
       ELSE req' = [req EXCEPT ![r] = [IdleReq EXCEPT !.pc = "done",
                        !.kind = kind, !.pk = pk, !.user = user,
                        !.res = "Forbidden"]]
    /\ UNCHANGED <<clock, db, lock, sweep, lastCount, direct>>

\* Escrow.objects.select_for_update(nowait=True).get(pk=pk): DoesNotExist when
\* there is no row, DatabaseError (-> 409) when the row is locked
\* (AcquireSteal: a variant that takes the row whoever holds it)
AcquireSteal(r) ==
    /\ req[r].pc = "started"
    /\ LET pk == req[r].pk IN
       IF ~Exists(pk)
       THEN /\ req' = [req EXCEPT ![r] = Done(r, "DoesNotExist")]
            /\ lock' = lock
       ELSE /\ req' = [req EXCEPT ![r].pc = "locked", ![r].inst = db[pk]]
            /\ lock' = [lock EXCEPT ![pk] = r]
    /\ UNCHANGED <<clock, db, sweep, lastCount, direct>>

Acquire(r) ==
    /\ req[r].pc = "started"
    /\ LET pk == req[r].pk IN
       IF ~Exists(pk)
       THEN /\ req' = [req EXCEPT ![r] = Done(r, "DoesNotExist")]
            /\ lock' = lock
       ELSE IF lock[pk] # Free
       THEN /\ req' = [req EXCEPT ![r] = Done(r, "Busy")]
            /\ lock' = lock
       ELSE /\ req' = [req EXCEPT ![r].pc = "locked", ![r].inst = db[pk]]
            /\ lock' = [lock EXCEPT ![pk] = r]
    /\ UNCHANGED <<clock, db, sweep, lastCount, direct>>

\* The row lock ends with the transaction, committed or rolled back.
\* (UnlockLeak: a variant that keeps it)
UnlockLeak(l, pk) == l

Unlock(l, pk) == [l EXCEPT ![pk] = Free]

\* except ValueError -> 400
Status(outcome) == IF outcome = "ok" THEN "OK" ELSE "InvalidTransition"

\* check_object_permissions, the model operation, the end of the atomic block
Finish(r) ==
    /\ req[r].pc = "locked"
    /\ LET pk == req[r].pk
           t == Transition(req[r].kind, req[r].inst, db[pk], req[r].now)
       IN IF ~IsEscrowParticipant(req[r].user, req[r].inst)
          THEN /\ req' = [req EXCEPT ![r] = Done(r, "Forbidden")]
               /\ db' = db
               /\ lock' = Unlock(lock, pk)
          ELSE /\ req' = [req EXCEPT ![r] = Done(r, Status(t.outcome))]
               /\ db' = [db EXCEPT ![pk] = t.row]
               /\ lock' = Unlock(lock, pk)
    /\ UNCHANGED <<clock, sweep, lastCount, direct>>

\* The response is delivered.
Return(r) ==
    /\ req[r].pc = "done"
    /\ req' = [req EXCEPT ![r] = IdleReq]
    /\ UNCHANGED <<clock, db, lock, sweep, lastCount, direct>>

\* ------------------------------------------------------ expire_funded_escrows
\* EligibleStrict: a variant of the filter with expires_at__lt
EligibleStrict(row, now) ==
    row.state = FUNDED /\ row.expires_at # Null /\ row.expires_at < now

\* EligibleAny: a variant of the filter without the expires_at condition
EligibleAny(row, now) == row.state = FUNDED

\* filter(state=FUNDED, expires_at__lte=now)
Eligible(row, now) ==
    row.state = FUNDED /\ row.expires_at # Null /\ row.expires_at <= now

\* .order_by("id"): the eligible primary keys from pk upwards, ascending
RECURSIVE EligibleFrom(_, _)
EligibleFrom(pk, now) ==
    IF pk > Len(db) THEN <<>>
    ELSE IF Eligible(db[pk], now) THEN <<pk>> \o EligibleFrom(pk + 1, now)
    ELSE EligibleFrom(pk + 1, now)

\* [:batch_size]
Limit(s, n) == IF Len(s) <= n THEN s ELSE SubSeq(s, 1, n)

\* SweepStartKeep: a variant whose counter carries over from the last run.
SweepStartKeep ==
    /\ sweep.pc = "idle"
    /\ sweep' = [IdleSweep EXCEPT !.pc = "query", !.now = clock,
                                  !.expired_count = lastCount]
    /\ UNCHANGED <<clock, db, lock, req, lastCount, direct>>

\* now = timezone.now(); expired_count = 0
SweepStart ==
    /\ sweep.pc = "idle"
    /\ sweep' = [IdleSweep EXCEPT !.pc = "query", !.now = clock]
    /\ UNCHANGED <<clock, db, lock, req, lastCount, direct>>

\* candidates = ...; if not candidates: break; return expired_count
SweepQuery ==
    /\ sweep.pc = "query"
    /\ LET c == Limit(EligibleFrom(1, sweep.now), batch_size) IN
       IF c = <<>>
       THEN /\ sweep' = IdleSweep
            /\ lastCount' = sweep.expired_count
       ELSE /\ sweep' = [sweep EXCEPT !.pc = "iter", !.candidates = c]
            /\ lastCount' = lastCount
    /\ UNCHANGED <<clock, db, lock, req, direct>>

\* for escrow in candidates: select_for_update().get(pk=escrow.pk), which waits
\* for the row lock
SweepLock ==
    /\ sweep.pc = "iter"
    /\ IF sweep.candidates = <<>>
       THEN /\ sweep' = [sweep EXCEPT !.pc = "query"]
            /\ lock' = lock
       ELSE LET pk == Head(sweep.candidates) IN
            /\ lock[pk] = Free
            /\ lock' = [lock EXCEPT ![pk] = SweepHolder]
            /\ sweep' = [sweep EXCEPT !.pc = "locked", !.locked = db[pk]]
    /\ UNCHANGED <<clock, db, req, lastCount, direct>>

\* SweepExpireCountAll: a variant that counts every candidate it locked, also
\* the ones it skips.
SweepExpireCountAll ==
    /\ sweep.pc = "locked"
    /\ LET pk == Head(sweep.candidates)
           t == Expire(sweep.locked, db[pk], sweep.now)
       IN /\ db' = IF sweep.locked.state # FUNDED THEN db
                   ELSE [db EXCEPT ![pk] = t.row]
          /\ sweep' = [sweep EXCEPT !.pc = "iter", !.locked = NoInst,
                                    !.candidates = Tail(@),
                                    !.expired_count = @ + 1]
    /\ lock' = Unlock(lock, Head(sweep.candidates))
    /\ UNCHANGED <<clock, req, lastCount, direct>>

\* if locked.state != FUNDED: continue; locked.expire(now=now); expired_count += 1
SweepExpire ==
    /\ sweep.pc = "locked"
    /\ LET pk == Head(sweep.candidates)
           t == Expire(sweep.locked, db[pk], sweep.now)
       IN IF sweep.locked.state # FUNDED
          THEN /\ db' = db
               /\ sweep' = [sweep EXCEPT !.pc = "iter", !.locked = NoInst,
                                         !.candidates = Tail(@)]
          ELSE /\ db' = [db EXCEPT ![pk] = t.row]
               /\ sweep' = [sweep EXCEPT !.pc = "iter", !.locked = NoInst,
                                         !.candidates = Tail(@),
                                         !.expired_count = @ + 1]
    /\ lock' = Unlock(lock, Head(sweep.candidates))
    /\ UNCHANGED <<clock, req, lastCount, direct>>

\* ------------------------------------------- callers of the model operations
\* escrow = Escrow.objects.get(pk=pk) or escrow.refresh_from_db(): no row lock
DirectGet(pk) ==
    /\ Exists(pk)
    /\ direct' = [IdleDirect EXCEPT !.pk = pk, !.inst = db[pk]]
    /\ UNCHANGED <<clock, db, lock, req, sweep, lastCount>>

\* The operation gets as far as its UPDATE statement.
Writes(kind, inst) ==
    IF kind = "fund" THEN inst.state = CREATED ELSE inst.state = FUNDED

\* escrow.fund(now) / release(now) / refund(now) / expire(now) on an instance
\* read earlier, as the tests call them; the UPDATE waits for the row lock
DirectCall(kind) ==
    /\ direct.pk # 0
    /\ Writes(kind, direct.inst) => lock[direct.pk] = Free
    /\ LET t == Transition(kind, direct.inst, db[direct.pk], clock) IN
       /\ direct' = [direct EXCEPT !.kind = kind, !.inst = t.inst,
                                   !.res = t.outcome]
       /\ db' = [db EXCEPT ![direct.pk] = t.row]
    /\ UNCHANGED <<clock, lock, req, sweep, lastCount>>

\* ------------------------------------------------------------ specifications
\* The service: the endpoints and the task.
Next ==
    \/ Tick
    \/ \E user \in {Buyer1} : Create(user)
    \/ \E r \in Reqs, kind \in Kinds, pk \in Pks, user \in Users :
           Start(r, kind, pk, user)
    \/ \E r \in Reqs : Acquire(r)
    \/ \E r \in Reqs : Finish(r)
    \/ \E r \in Reqs : Return(r)
    \/ SweepStart
    \/ SweepQuery
    \/ SweepLock
    \/ SweepExpire

Spec == Init /\ [][Next]_vars

\* The service when the beat schedule keeps starting the task, the task keeps
\* running, its wait for a row lock ends once the lock is released often
\* enough, and every request that has started is served to its response.
Fairness ==
    /\ WF_vars(SweepStart)
    /\ WF_vars(SweepQuery)
    /\ SF_vars(SweepLock)
    /\ WF_vars(SweepExpire)
    /\ \A r \in Reqs : WF_vars(Acquire(r)) /\ WF_vars(Finish(r))

SpecLive == Spec /\ Fairness

\* One endpoint request and the task, together with a caller of the model
\* operations that is outside the row lock of the endpoints.
ModelReqs == {1}

NextModel ==
    \/ Tick
    \/ \E user \in {Buyer1} : Create(user)
    \/ \E r \in ModelReqs, kind \in Kinds, pk \in Pks, user \in Users :
           Start(r, kind, pk, user)
    \/ \E r \in ModelReqs : Acquire(r)
    \/ \E r \in ModelReqs : Finish(r)
    \/ \E r \in ModelReqs : Return(r)
    \/ SweepStart
    \/ SweepQuery
    \/ SweepLock
    \/ SweepExpire
    \/ \E pk \in Pks : DirectGet(pk)
    \/ \E kind \in Kinds \cup {"expire"} : DirectCall(kind)

SpecModel == Init /\ [][NextModel]_vars

\* The race of the concurrency test: one escrow of a buyer, funded at some time
\* up to now, then one release and one refund request of that buyer, nothing
\* else.
RaceReqs == {1, 2}

RaceKind(r) == IF r = 1 THEN "release" ELSE "refund"

Buyers == {user \in Users : BuyerOnly(user)}

FundedEscrow(user, now) ==
    Fund(NewEscrow(user.id, Seller1.id, MaxAmount),
         NewEscrow(user.id, Seller1.id, MaxAmount), now).row

InitRace ==
    /\ clock \in Times
    /\ \E user \in Buyers, now \in 0 .. clock : db = <<FundedEscrow(user, now)>>
    /\ lock = [pk \in Pks |-> Free]
    /\ req = [r \in Reqs |-> IdleReq]
    /\ sweep = IdleSweep
    /\ lastCount = 0
    /\ direct = IdleDirect

NextRace ==
    \/ Tick
    \/ \E r \in RaceReqs, user \in Buyers :
           user.id = db[1].buyer_id /\ Start(r, RaceKind(r), 1, user)
    \/ \E r \in RaceReqs : Acquire(r)
    \/ \E r \in RaceReqs : Finish(r)

SpecRace == InitRace /\ [][NextRace]_vars

\* The expiration task on its own, as the task tests run it: a table of rows the
\* service has stored by now, then runs of the task one after the other.  A run
\* can die at any point (worker killed, exception out of the loop); each
\* candidate has its own transaction, so a death inside one rolls that
\* transaction back and releases its row lock.
StoredRows(t) ==
    LET new == NewEscrow(Buyer1.id, Seller1.id, MaxAmount)
        funded(f) == Fund(new, new, f).row
    IN {new}
       \cup {funded(f) : f \in 0 .. t}
       \cup {Transition(kind, funded(f), funded(f), n).row :
                 kind \in {"release", "refund"}, f \in 0 .. t, n \in 0 .. t}
       \cup {Expire(funded(p[1]), funded(p[1]), p[2]).row :
                 p \in {q \in (0 .. t) \X (0 .. t) :
                            Eligible(funded(q[1]), q[2])}}

Tables(t) == UNION {[1 .. n -> StoredRows(t)] : n \in 1 .. SweepEscrows}

InitSweep ==
    /\ clock \in Times
    /\ db \in Tables(clock)
    /\ lock = [pk \in 1 .. Len(db) |-> Free]
    /\ req = [r \in Reqs |-> IdleReq]
    /\ sweep = IdleSweep
    /\ lastCount = 0
    /\ direct = IdleDirect

\* SweepCrashPartial: a variant in which the death of a run inside a
\* candidate's transaction leaves the state written without its timestamp.
SweepCrashPartial ==
    /\ sweep.pc \in {"query", "iter", "locked"}
    /\ sweep' = [sweep EXCEPT !.pc = "crashed", !.locked = NoInst]
    /\ IF sweep.pc = "locked"
       THEN /\ lock' = Unlock(lock, Head(sweep.candidates))
            /\ db' = [db EXCEPT ![Head(sweep.candidates)].state = EXPIRED]
       ELSE /\ lock' = lock
            /\ db' = db
    /\ UNCHANGED <<clock, req, lastCount, direct>>

\* The run dies: nothing is returned; an open transaction.atomic() block is
\* rolled back and its row lock released, the earlier ones stay committed.
SweepCrash ==
    /\ sweep.pc \in {"query", "iter", "locked"}
    /\ sweep' = [sweep EXCEPT !.pc = "crashed", !.locked = NoInst]
    /\ lock' = IF sweep.pc = "locked" THEN Unlock(lock, Head(sweep.candidates))
               ELSE lock
    /\ UNCHANGED <<clock, db, req, lastCount, direct>>

\* The beat schedule starts the next run after a dead one.
SweepRestart ==
    /\ sweep.pc = "crashed"
    /\ sweep' = [IdleSweep EXCEPT !.pc = "query", !.now = clock]
    /\ UNCHANGED <<clock, db, lock, req, lastCount, direct>>

NextSweep ==
    \/ Tick
    \/ SweepStart
    \/ SweepQuery
    \/ SweepLock
    \/ SweepExpire
    \/ SweepCrash
    \/ SweepRestart

SpecSweep == InitSweep /\ [][NextSweep]_vars

\* The creation endpoint with every user and payload.
NextCreate ==
    \E user \in Users, seller_id \in SellerIds, amount \in Amounts :
        Len(db) < CreateEscrows /\ PostEscrow(user, seller_id, amount)

SpecCreate == Init /\ [][NextCreate]_vars

\* ------------------------------------------------------------------- claims
Rows == 1 .. Len(db)

TerminalKinds == {"release", "refund"}

\* Two responses that are both a committed release or refund of one escrow.
TwoWinners ==
    \E r1, r2 \in Reqs :
        /\ r1 # r2
        /\ req[r1].pc = "done" /\ req[r2].pc = "done"
        /\ req[r1].pk = req[r2].pk
        /\ req[r1].kind \in TerminalKinds /\ req[r2].kind \in TerminalKinds
        /\ req[r1].res = "OK" /\ req[r2].res = "OK"

\* C1: in a race of release, refund and expire attempts on a FUNDED escrow at
\* most one attempt commits: a step leaves a FUNDED row FUNDED with its
\* version, or stores one terminal state with version + 1; after that neither
\* state nor version changes again, and no two requests are both answered
\* with a committed release or refund.
C1_SingleWinner ==
    /\ [](~TwoWinners)
    /\ [][\A pk \in Rows :
            /\ db[pk].state = FUNDED =>
                   \/ db'[pk].state = FUNDED /\ db'[pk].version = db[pk].version
                   \/ db'[pk].state \in Terminal
                          /\ db'[pk].version = db[pk].version + 1
            /\ db[pk].state \in Terminal =>
                   db'[pk].state = db[pk].state
                       /\ db'[pk].version = db[pk].version]_vars

\* A release request committed and a refund request of the same escrow lost.
C1_Witness ==
    \E r1, r2 \in Reqs :
        /\ req[r1].pc = "done" /\ req[r2].pc = "done"
        /\ req[r1].pk = req[r2].pk /\ Exists(req[r1].pk)
        /\ req[r1].kind = "release" /\ req[r1].res = "OK"
        /\ req[r2].kind = "refund"
        /\ req[r2].res \in {"Busy", "InvalidTransition"}
        /\ db[req[r1].pk].state = RELEASED /\ db[req[r1].pk].version = 2

\* C2: terminal states are absorbing: no step changes a row whose stored state
\* is RELEASED, REFUNDED or EXPIRED.
C2_TerminalAbsorbing ==
    [][\A pk \in Rows : db[pk].state \in Terminal => db'[pk] = db[pk]]_vars

\* A fund, release or refund request was answered after the escrow had
\* reached a terminal state.
C2_Witness ==
    \E r \in Reqs :
        /\ req[r].pc = "done" /\ Exists(req[r].pk)
        /\ req[r].user = Buyer1 /\ req[r].res = "InvalidTransition"
        /\ db[req[r].pk].state \in Terminal

\* C3: when the release and the refund of the race have both returned,
\* exactly one of them succeeded, the other got Busy or InvalidTransition,
\* and the stored state is the terminal state of the winner.
C3_ReleaseRefundRace ==
    (req[1].pc = "done" /\ req[2].pc = "done") =>
        \/ /\ req[1].res = "OK"
           /\ req[2].res \in {"Busy", "InvalidTransition"}
           /\ db[1].state = RELEASED
        \/ /\ req[2].res = "OK"
           /\ req[1].res \in {"Busy", "InvalidTransition"}
           /\ db[1].state = REFUNDED

\* Both requests of the race have returned and the refund won.
C3_Witness ==
    /\ req[1].pc = "done" /\ req[2].pc = "done"
    /\ req[2].res = "OK" /\ req[1].res = "Busy"

\* The transition is not legal from the stored state.
Illegal(kind, state) ==
    \/ kind = "fund" /\ state # CREATED
    \/ kind \in TerminalKinds /\ state # FUNDED

\* C4: a fund request of the buyer on an escrow that is not CREATED, and a
\* release or refund request on an escrow that is not FUNDED, is answered
\* InvalidTransition and leaves the stored rows as they were.
C4_IllegalRejected ==
    [][\A r \in Reqs :
            (/\ req[r].pc = "locked" /\ req'[r].pc = "done"
             /\ IsEscrowParticipant(req[r].user, db[req[r].pk])
             /\ Illegal(req[r].kind, db[req[r].pk].state))
            => (req'[r].res = "InvalidTransition" /\ db' = db)]_vars

\* A fund request on an escrow that is already FUNDED was rejected.
C4_Witness ==
    \E r \in Reqs :
        /\ req[r].pc = "done" /\ Exists(req[r].pk)
        /\ req[r].kind = "fund" /\ req[r].res = "InvalidTransition"
        /\ db[req[r].pk].state = FUNDED /\ db[req[r].pk].version = 1

\* A step of the caller of the model operations that calls expire.
DirectExpireStep ==
    /\ direct.pk # 0
    /\ direct'.kind = "expire"
    /\ UNCHANGED <<clock, lock, req, sweep, lastCount>>

\* The task leaves a candidate that is no longer FUNDED.
SweepSkipStep ==
    /\ sweep.pc = "locked" /\ sweep'.pc = "iter"
    /\ db[Head(sweep.candidates)].state # FUNDED

\* C5: expire on an escrow whose stored state is not FUNDED raises nothing and
\* changes no stored field, and the task does not count a candidate it finds
\* in another state than FUNDED.
C5_ExpireNoOp ==
    [][/\ (DirectExpireStep /\ db[direct.pk].state # FUNDED)
            => (direct'.res = "ok" /\ db'[direct.pk] = db[direct.pk])
       /\ SweepSkipStep
            => (db' = db /\ sweep'.expired_count = sweep.expired_count)]_vars

\* expire was called on an instance that is up to date and not FUNDED.
C5_Witness ==
    /\ direct.pk # 0 /\ direct.kind = "expire" /\ direct.res = "ok"
    /\ direct.inst = db[direct.pk]
    /\ direct.inst.state \in {CREATED, RELEASED, REFUNDED}

\* C6: the stored version never decreases, a step that changes a row raises
\* its version by exactly 1, and a request answered with anything but success,
\* like a candidate the task skips, leaves every row unchanged.
C6_VersionMonotone ==
    [][/\ \A pk \in Rows :
            /\ db'[pk].version >= db[pk].version
            /\ db'[pk] # db[pk] => db'[pk].version = db[pk].version + 1
       /\ \A r \in Reqs :
            (req[r].pc # "done" /\ req'[r].pc = "done" /\ req'[r].res # "OK")
            => db' = db
       /\ SweepSkipStep => db' = db]_vars

\* An escrow went through two committed transitions and a request on it was
\* rejected.
C6_Witness ==
    \E r \in Reqs :
        /\ req[r].pc = "done" /\ Exists(req[r].pk)
        /\ req[r].res \in {"Busy", "InvalidTransition", "Forbidden"}
        /\ db[req[r].pk].version = 2

NoTerminalStamp(e) ==
    e.released_at = Null /\ e.refunded_at = Null /\ e.expired_at = Null

\* C7: an escrow in a terminal state has the timestamp of that state set and
\* the two other terminal timestamps null; a CREATED or FUNDED escrow has all
\* three null.
C7_TerminalTimestamps ==
    \A pk \in Rows :
        LET e == db[pk] IN
        /\ e.state \in {CREATED, FUNDED} => NoTerminalStamp(e)
        /\ e.state = RELEASED =>
               e.released_at # Null /\ e.refunded_at = Null /\ e.expired_at = Null
        /\ e.state = REFUNDED =>
               e.released_at = Null /\ e.refunded_at # Null /\ e.expired_at = Null
        /\ e.state = EXPIRED =>
               e.released_at = Null /\ e.refunded_at = Null /\ e.expired_at # Null

\* An escrow was released.
C7_Witness ==
    \E pk \in Rows : db[pk].state = RELEASED /\ db[pk].released_at # Null

\* C8: a request that finds the row lock held is answered Busy in that very
\* step, without running the state machine: the rows and the lock stay as
\* they were.
C8_BusyFailsFast ==
    [][\A r \in Reqs :
            (/\ req[r].pc = "started" /\ Exists(req[r].pk)
             /\ lock[req[r].pk] # Free
             /\ req'[r] # req[r])
            => (/\ req'[r].pc = "done" /\ req'[r].res = "Busy"
                /\ db' = db /\ lock' = lock)]_vars

\* A request was answered Busy while another request held the row lock.
C8_Witness ==
    \E r1, r2 \in Reqs :
        /\ req[r1].pc = "done" /\ req[r1].res = "Busy"
        /\ req[r2].pc = "locked" /\ req[r2].pk = req[r1].pk
        /\ lock[req[r1].pk] = r2

\* C9: the row lock is held only by an attempt between its acquisition and
\* its return: by a request in its atomic block, or by the task while it
\* handles the candidate.
C9_GuardReleased ==
    \A pk \in Pks :
        /\ lock[pk] \in Reqs =>
               req[lock[pk]].pc = "locked" /\ req[lock[pk]].pk = pk
        /\ lock[pk] = SweepHolder =>
               sweep.pc = "locked" /\ Head(sweep.candidates) = pk
        /\ lock[pk] \in Reqs \cup {SweepHolder, Free}

\* A request of another buyer was answered Forbidden inside the atomic block,
\* and the row is not locked.
C9_Witness ==
    \E r \in Reqs :
        /\ req[r].pc = "done" /\ req[r].res = "Forbidden"
        /\ req[r].user = Buyer2 /\ Exists(req[r].pk)
        /\ lock[req[r].pk] = Free

\* A release or refund of the caller passed the state check on its instance
\* and its conditional UPDATE matched no row: the instance is still FUNDED.
LostRace ==
    /\ direct.pk # 0
    /\ direct.kind \in TerminalKinds
    /\ direct.res # "none"
    /\ direct.inst.state = FUNDED

C11_NotFound ==
    [][\A r \in Reqs :
            (/\ req[r].pc = "started" /\ ~Exists(req[r].pk)
             /\ req'[r].pc = "done")
            => (req'[r].res = "NotFound" /\ db' = db)]_vars

\* The rows the query of a run started at now selects.
AnyEligible(now) == \E pk \in Rows : Eligible(db[pk], now)

\* The run returns its count.
SweepReturns == sweep.pc = "query" /\ sweep'.pc = "idle"

\* C12: the task is idempotent when it runs on its own.  A run starts its
\* count at 0 and changes only rows its query selects (FUNDED with
\* expires_at <= now), each to EXPIRED and each counted once; it handles every
\* candidate it locks, returns its count, and returns only when no selected row
\* is left.  A run that starts when no row is eligible returns 0 and changes no
\* row.
C12_SweepIdempotent ==
    [][/\ sweep'.pc = "query" /\ sweep.pc \in {"idle", "crashed"}
          => sweep'.expired_count = 0 /\ db' = db
       /\ \A pk \in Rows :
              db'[pk] # db[pk]
              => /\ Eligible(db[pk], sweep.now)
                 /\ db'[pk].state = EXPIRED
                 /\ sweep'.expired_count = sweep.expired_count + 1
                 /\ \A other \in Rows \ {pk} : db'[other] = db[other]
       /\ sweep.pc = "locked" /\ sweep'.pc = "iter"
          => db'[Head(sweep.candidates)].state = EXPIRED
       /\ SweepReturns
          => lastCount' = sweep.expired_count /\ ~AnyEligible(sweep.now)'
       /\ sweep.pc = "query" /\ sweep.expired_count = 0
          /\ ~AnyEligible(sweep.now)
          => db' = db /\ (sweep'.pc = "idle" => lastCount' = 0)]_vars

\* The second of two runs is about to return 0 after the first returned the
\* number of rows it expired.
C12_Witness ==
    /\ sweep.pc = "query" /\ sweep.expired_count = 0
    /\ ~AnyEligible(sweep.now)
    /\ lastCount = SweepEscrows
    /\ \A pk \in Rows : db[pk].state = EXPIRED

\* C13: the number a run of the task returns is the number of FUNDED -> EXPIRED
\* transitions that run committed, also while release and refund requests
\* race with it: the count of a run goes up by one exactly in the steps that
\* store FUNDED -> EXPIRED, a candidate another actor resolved first is skipped
\* without being counted, the count is otherwise only reset when the run
\* returns, and the value returned is the count.
C13_CountsCommitted ==
    [][/\ (sweep'.expired_count = sweep.expired_count + 1)
          <=> (\E pk \in Rows :
                   db[pk].state = FUNDED /\ db'[pk].state = EXPIRED)
       /\ sweep'.expired_count # sweep.expired_count
          /\ sweep'.expired_count # sweep.expired_count + 1
          => SweepReturns
       /\ SweepReturns => lastCount' = sweep.expired_count
       /\ lastCount' # lastCount => SweepReturns]_vars

\* A run has gone through its candidates without counting one, because a
\* release or refund request committed first.
C13_Witness ==
    /\ sweep.pc = "iter" /\ sweep.candidates = <<>>
    /\ sweep.expired_count = 0
    /\ \E r \in Reqs :
           /\ req[r].pc = "done" /\ req[r].res = "OK"
           /\ req[r].kind \in TerminalKinds
           /\ db[req[r].pk].state \in {RELEASED, REFUNDED}

\* The candidates a run has not handled yet.
Remaining(sw) == {sw.candidates[i] : i \in 1 .. Len(sw.candidates)}

\* C14: a run of the task that dies after it expired N of its M candidates
\* leaves the table as its committed transactions left it: the death changes
\* no row and leaves no row locked, the M - N candidates not handled are still
\* FUNDED and eligible for as long as the run stays dead, a row that is EXPIRED
\* never changes again, and the run started after it returns only when no
\* eligible row is left.
C14_CrashKeepsCommitted ==
    [][/\ sweep'.pc = "crashed" /\ sweep.pc # "crashed"
          => db' = db /\ \A pk \in Rows : lock'[pk] = Free
       /\ sweep'.pc = "crashed"
          => \A pk \in Remaining(sweep') :
                 /\ Eligible(db'[pk], sweep'.now)
                 /\ Eligible(db'[pk], clock')
       /\ \A pk \in Rows : db[pk].state = EXPIRED => db'[pk] = db[pk]
       /\ SweepReturns => ~AnyEligible(sweep.now)']_vars

\* A run died after it expired one candidate and before it handled the next.
C14_Witness ==
    /\ sweep.pc = "crashed"
    /\ sweep.expired_count >= 1
    /\ Remaining(sweep) # {}
    /\ \E pk \in Rows : db[pk].state = EXPIRED /\ db[pk].expired_at = sweep.now

\* The user is the buyer of the escrow.
OwnBuyer(user, row) == user.role = "buyer" /\ user.id = row.buyer_id

\* Request r is answered in this step, for an existing escrow of which its user
\* is not the buyer.
ForeignAnswer(r) ==
    /\ req[r].pc # "done" /\ req'[r].pc = "done"
    /\ Exists(req'[r].pk)
    /\ ~OwnBuyer(req'[r].user, db[req'[r].pk])

\* C15: a fund, release or refund request of a seller, or of a buyer whose id
\* is not the escrow's buyer_id, is answered Forbidden and changes no row,
\* whatever the state of the escrow.  (The endpoints take the row lock before
\* they compare the buyer id, so a buyer's request on a foreign escrow whose
\* row is locked is answered Busy.)
C15_ForeignIsForbidden ==
    [][\A r \in Reqs :
            ForeignAnswer(r) => req'[r].res = "Forbidden" /\ db' = db]_vars

\* Request r, of the escrow's buyer, hands its operation to the model in this
\* step.
OwnFinish(r) ==
    /\ req[r].pc = "locked" /\ req'[r].pc = "done"
    /\ OwnBuyer(req[r].user, db[req[r].pk])

\* C16: a fund request on a CREATED escrow commits state FUNDED with funded_at
\* the now of the request and expires_at that now plus the expiration window
\* (24 hours by default); a release request on a FUNDED escrow commits state
\* RELEASED with released_at the now of the request, refunded_at and
\* expired_at null, and the funding timestamps as they were.
C16_FundThenRelease ==
    [][\A r \in Reqs :
            OwnFinish(r)
            => LET old == db[req[r].pk]
                   new == db'[req[r].pk]
               IN /\ req[r].kind = "fund" /\ old.state = CREATED
                     => /\ req'[r].res = "OK"
                        /\ new.state = FUNDED
                        /\ new.funded_at = req[r].now
                        /\ new.expires_at = req[r].now + ExpirationWindow
                  /\ req[r].kind = "release" /\ old.state = FUNDED
                     => /\ req'[r].res = "OK"
                        /\ new.state = RELEASED
                        /\ new.released_at = req[r].now
                        /\ new.refunded_at = Null /\ new.expired_at = Null
                        /\ new.funded_at = old.funded_at
                        /\ new.expires_at = old.expires_at]_vars

\* A funded escrow has been released on request.
C16_Witness ==
    \E r \in Reqs :
        /\ req[r].pc = "done" /\ req[r].kind = "release" /\ req[r].res = "OK"
        /\ LET row == db[req[r].pk] IN
           /\ row.state = RELEASED
           /\ row.funded_at # Null
           /\ row.expires_at = row.funded_at + ExpirationWindow
           /\ row.released_at # Null
           /\ row.refunded_at = Null /\ row.expired_at = Null

\* C17: expires_at and funded_at are null exactly while the escrow is CREATED.
C17_FundingStamps ==
    \A pk \in Rows :
        /\ db[pk].expires_at = Null <=> db[pk].state = CREATED
        /\ db[pk].funded_at = Null <=> db[pk].state = CREATED

\* An escrow in a terminal state still has both timestamps.
C17_Witness ==
    \E pk \in Rows :
        /\ db[pk].state \in Terminal
        /\ db[pk].expires_at # Null /\ db[pk].funded_at # Null

\* C18: the creation endpoint stores no escrow with amount <= 0 or with the
\* seller the same as the buyer.  (The serializer checks neither.)
C18_CreateValidated ==
    \A pk \in Rows :
        db[pk].amount > 0 /\ db[pk].buyer_id # db[pk].seller_id

\* A step of the caller of the model operations that calls an operation.
DirectStep ==
    /\ direct.pk # 0
    /\ direct'.kind # "none"
    /\ UNCHANGED <<clock, lock, req, sweep, lastCount>>

\* C19: every model operation, fund included, commits only if the stored row
\* still has the version its instance loaded: a call on an instance whose
\* version is no longer the stored one changes no row, so a second fund of a
\* CREATED escrow and a fund computed from a stale CREATED load write nothing.
\* (Escrow.fund saves its fields without a condition on state or version.)
C19_StaleCommitRefused ==
    [][(DirectStep /\ direct.inst.version # db[direct.pk].version)
            => db' = db]_vars

\* C20: the task expires only eligible escrows, also while requests fund and
\* resolve escrows during the run: a step of a run started at now that changes
\* a row changes one that is FUNDED with expires_at <= now, to EXPIRED at now,
\* and leaves every other row alone; no other step stores EXPIRED.
C20_OnlyEligibleExpired ==
    [][\A pk \in Rows :
            /\ sweep' # sweep /\ db'[pk] # db[pk]
               => /\ db[pk].state = FUNDED
                  /\ db[pk].expires_at # Null
                  /\ db[pk].expires_at <= sweep.now
                  /\ db'[pk].state = EXPIRED
                  /\ db'[pk].expired_at = sweep.now
                  /\ \A other \in Rows \ {pk} : db'[other] = db[other]
            /\ db[pk].state # EXPIRED /\ db'[pk].state = EXPIRED
               => sweep' # sweep]_vars

\* A run holds the lock of a candidate that a request resolved after the query
\* selected it, and is about to leave it alone.
C20_Witness ==
    /\ sweep.pc = "locked"
    /\ sweep.locked.state \in {RELEASED, REFUNDED}
    /\ db[Head(sweep.candidates)] = sweep.locked

\* The task is at a candidate whose row lock another attempt holds.
SweepAtHeldLock ==
    /\ sweep.pc = "iter" /\ sweep.candidates # <<>>
    /\ lock[Head(sweep.candidates)] # Free

\* C21: the task never waits for a row lock: at a candidate whose lock a
\* release or refund request holds it can take its next step at once, and
\* that step leaves the candidate and goes on.  (The task locks with
\* select_for_update() without nowait: it waits until the lock is free.)
C21_SweepNeverWaits ==
    SweepAtHeldLock => ENABLED SweepLock

\* Escrow pk is FUNDED and its deadline has passed.
Due(pk) ==
    Exists(pk) /\ db[pk].state = FUNDED /\ db[pk].expires_at <= clock

\* C22: while the task keeps being started and every started attempt is
\* served, an escrow that is FUNDED with its deadline passed reaches RELEASED,
\* REFUNDED or EXPIRED, whatever requests race with the task.
C22_EventuallyResolved ==
    \A pk \in Pks : Due(pk) ~> (Exists(pk) /\ db[pk].state \in Terminal)

\* An escrow past its deadline is still FUNDED while a request holds its row
\* lock and a run of the task waits for it.
C22_Witness ==
    \E pk \in Pks :
        /\ Due(pk)
        /\ SweepAtHeldLock /\ Head(sweep.candidates) = pk
        /\ \E r \in Reqs : lock[pk] = r /\ req[r].kind \in TerminalKinds

\* The row is one the query of a run started at now selects.
Selected(row, now) ==
    row.state = FUNDED /\ row.expires_at # Null /\ row.expires_at <= now

C24_VersionMirrorsState ==
    \A pk \in Rows :
        /\ db[pk].version = 0 <=> db[pk].state = CREATED
        /\ db[pk].version = 1 <=> db[pk].state = FUNDED
        /\ db[pk].version = 2 <=> db[pk].state \in Terminal
        /\ db[pk].version <= 2

\* An escrow has been expired by the task after requests were answered on it.
C24_Witness ==
    \E pk \in Rows :
        /\ db[pk].state = EXPIRED /\ db[pk].version = 2
        /\ \E r \in Reqs : req[r].pc = "done" /\ req[r].pk = pk

\* C25: the terminal timestamp of an escrow is not earlier than its
\* funded_at.  (A request reads its now before it takes the row lock, so a
\* release or refund that read the clock first can commit after a fund that
\* read it later.)
C25_TimestampOrder ==
    \A pk \in Rows :
        /\ db[pk].state = RELEASED => db[pk].released_at >= db[pk].funded_at
        /\ db[pk].state = REFUNDED => db[pk].refunded_at >= db[pk].funded_at
        /\ db[pk].state = EXPIRED => db[pk].expired_at >= db[pk].funded_at

\* C26: requests of a buyer who does not own the escrow do not interfere with
\* the requests of its buyer: the buyer is never answered Busy because of a
\* row lock that a request of another buyer holds, a request that is itself
\* going to be answered Forbidden.
C26_NoInterference ==
    [][\A r \in Reqs :
            (/\ req[r].pc = "started" /\ req'[r].pc = "done"
             /\ Exists(req[r].pk)
             /\ OwnBuyer(req[r].user, db[req[r].pk])
             /\ req'[r].res = "Busy")
            => ~\E other \in Reqs :
                    /\ lock[req[r].pk] = other
                    /\ ~OwnBuyer(req[other].user, db[req[r].pk])]_vars

\* The row a release or refund at now stores over a FUNDED row, whatever its
\* expires_at.
Resolved(kind, row, now) ==
    IF kind = "release"
    THEN [row EXCEPT !.state = RELEASED, !.released_at = now, !.version = @ + 1]
    ELSE [row EXCEPT !.state = REFUNDED, !.refunded_at = now, !.version = @ + 1]

\* C27: the deadline is enforced by the task only: a release or refund request
\* of the buyer on an escrow that is FUNDED with expires_at already passed, and
\* that no run of the task has expired yet, is answered OK and stores the
\* same row as it stores before the deadline.
C27_DeadlineOnlyBySweep ==
    [][\A r \in Reqs :
            (/\ OwnFinish(r)
             /\ req[r].kind \in TerminalKinds
             /\ db[req[r].pk].state = FUNDED)
            => /\ req'[r].res = "OK"
               /\ db'[req[r].pk] = Resolved(req[r].kind, db[req[r].pk], req[r].now)]_vars

\* An escrow was released on request at a time when its expires_at had passed.
C27_Witness ==
    \E r \in Reqs :
        /\ req[r].pc = "done" /\ req[r].res = "OK"
        /\ req[r].kind = "release"
        /\ db[req[r].pk].state = RELEASED
        /\ db[req[r].pk].expires_at <= db[req[r].pk].released_at

====
